---- MODULE Spec2Model ----
(***************************************************************************)
(* Model of the RAG news chatbot backend: the Redis session store          *)
(* (src/config/redis.js), the two turn handlers of the chat controller     *)
(* (src/controllers/chatController.js) and the RAG orchestrator            *)
(* (services/ragService.js with jinaService.js and qdrantService.js).      *)
(*                                                                         *)
(* Strings are sequences of atoms: an atom is one character, or a word     *)
(* that the code looks for as a whole (a keyword, the "{sources}"          *)
(* placeholder), or "lorem997", a run of 997 letters; wherever a keyword   *)
(* occurs in a text, inside a longer word too, it is written as its atom   *)
(* ("said" is "s", "ai", "d").  A value that is                            *)
(* not a string is written as a one-atom sequence whose atom names it      *)
(* ("#null", "#undefined", "#number:0", ...).  Scores are in hundredths    *)
(* (0.7 is 70).                                                            *)
(***************************************************************************)
EXTENDS Integers, Sequences, FiniteSets, TLC

VARIABLES
  store,      \* the Redis keyspace: key -> [val, ttl]
  now,        \* wall clock, in ticks of TickSeconds
  turns,      \* one record per sendMessage / send_message invocation
  viewer,     \* one join_session / getChatHistory / clear_session invocation
  nextId,     \* supply of uuidv4() values
  faults,     \* number of failed cache commands so far
  hist,       \* what was saved and read last on the watched session
  rag         \* one generateRAGResponse invocation, step by step

vars == <<store, now, turns, viewer, nextId, faults, hist, rag>>

gatewayVars == <<store, now, turns, viewer, nextId, faults, hist>>

----------------------------------------------------------------------------
(* Bounds of the model *)

NumTurns == 2
MaxTicks == 3
MaxFaults == 1
TickSeconds == 1800
MaxViews == 1

(* Program constants *)

DefaultTTL == 3600
MinQueryLength == 3
MaxQueryLength == 1000
JoiMinMessage == 1
JoiMaxMessage == 1000

----------------------------------------------------------------------------
(* Strings *)

Undefined == "undefined"

AtomLen(a) ==
  CASE a = "yesterday" -> 9 [] a = "recent" -> 6 [] a = "latest" -> 6
    [] a = "today" -> 5 [] a = "news" -> 4 [] a = "technology" -> 10
    [] a = "tech" -> 4 [] a = "ai" -> 2 [] a = "business" -> 8
    [] a = "market" -> 6 [] a = "finance" -> 7 [] a = "economic" -> 8
    [] a = "{sources}" -> 9 [] a = "lorem997" -> 997
    [] a = "artificial intelligence" -> 23 [] a = "AI" -> 2
    [] a = "News" -> 4
    [] OTHER -> 1

RECURSIVE StrLen(_)
StrLen(s) == IF s = <<>> THEN 0 ELSE AtomLen(Head(s)) + StrLen(Tail(s))

IsSpace(a) == a \in {" ", "\t", "\n"}

RECURSIVE TrimLeft(_)
TrimLeft(s) ==
  IF s # <<>> /\ IsSpace(Head(s)) THEN TrimLeft(Tail(s)) ELSE s

RECURSIVE TrimRight(_)
TrimRight(s) ==
  IF s # <<>> /\ IsSpace(s[Len(s)])
  THEN TrimRight(SubSeq(s, 1, Len(s) - 1)) ELSE s

Trim(s) == TrimRight(TrimLeft(s))

IsPrefix(a, b) == Len(a) <= Len(b) /\ SubSeq(b, 1, Len(a)) = a

Range(f) == {f[i] : i \in DOMAIN f}

----------------------------------------------------------------------------
(* validateQuery, ragService.js: the trimmed text is returned as the       *)
(* query.                                                                  *)

JSNull == <<"#null">>
JSUndefined == <<"#undefined">>
JSZero == <<"#number:0">>
JSNumber == <<"#number:12345">>
JSObject == <<"#object">>
NonStrings == {JSNull, JSUndefined, JSZero, JSNumber, JSObject}

(* typeof query === "string" *)
IsString(value) == value \notin NonStrings

(* !query *)
Falsy(value) == value \in {<<>>, JSNull, JSUndefined, JSZero}

TooShortInclusive(cleanQuery) == StrLen(cleanQuery) <= MinQueryLength

(* cleanQuery.length < 3 *)
TooShort(cleanQuery) == StrLen(cleanQuery) < MinQueryLength

(* cleanQuery.length > 1000 *)
TooLong(cleanQuery) == StrLen(cleanQuery) > MaxQueryLength

validateQuery(query) ==
  LET cleanQuery == Trim(query) IN
  IF Falsy(query) \/ ~IsString(query)
  THEN [valid |-> FALSE, query |-> <<>>]
  ELSE IF TooShort(cleanQuery)
       THEN [valid |-> FALSE, query |-> <<>>]
  ELSE IF TooLong(cleanQuery)
       THEN [valid |-> FALSE, query |-> <<>>]
  ELSE [valid |-> TRUE, query |-> cleanQuery]

(* messageSchema of the chat controller: sessionId a UUID, message a       *)
(* string of 1..1000 characters.                                           *)

SessionIds == {"s1", "s2"}
InputSessionIds == SessionIds \cup {"not-a-uuid"}

messageSchemaValidAny(sessionId, message) == TRUE

messageSchemaValid(sessionId, message) ==
  /\ sessionId \in SessionIds
  /\ IsString(message)
  /\ StrLen(message) >= JoiMinMessage
  /\ StrLen(message) <= JoiMaxMessage

QueryNews == <<"latest", " ", "news">>
QuerySources == <<"{sources}", " ", "ai">>
QueryPadded == <<" ", "h", "e", "y", " ">>
QueryShort == <<" ", "h", "i">>
QueryEmpty == <<>>
QueryBlank == <<" ", " ", " ", " ">>
QueryTabs == <<"\t", "o", "k", "\n">>
QueryMax == <<"lorem997", "a", "b", "c">>
QueryLong == <<" ", "lorem997", "a", "b", "c", "d">>

InputMessages == {QueryPadded, QueryShort, QueryEmpty, JSNumber}

----------------------------------------------------------------------------
(* Retrieval candidates and the RAG result, ragService.js *)

RelevanceThreshold == 70
MinResponseLength == 10
GeminiModel == "gemini-1.5-flash"

Field(obj, k, default) == IF k \in DOMAIN obj THEN obj[k] ELSE default

Chars(n) == [i \in 1..n |-> "x"]

(* new Date().toISOString() and Date.now() - startTime in a message or a   *)
(* result: the readings of the clock are not told apart                    *)
Timestamp == "ISO-8601"
Elapsed == 0

relevantFilterNone(searchResults) == searchResults

(* relevantDocs = searchResults.filter((result) => result.score > 0.7) *)
relevantFilter(searchResults) ==
  SelectSeq(searchResults, LAMBDA result : result.score > RelevanceThreshold)

(* the sources.push({...}) of the context map *)
MakeSource(doc) ==
  LET payload == doc.payload IN
  [title |-> Field(payload, "title", "Untitled"),
   source |-> Field(payload, "source", "Unknown Source"),
   url |-> Field(payload, "url", "#"),
   snippet |-> Field(payload, "snippet", Field(payload, "content", "")),
   relevanceScore |-> doc.score,
   publishedAt |-> Field(payload, "publishedAt", "null")]

BuildSources(relevantDocs) ==
  [i \in 1..Len(relevantDocs) |-> MakeSource(relevantDocs[i])]

(* one "Source i: ... Content: ... Published: ..." block per document *)
BuildContext(relevantDocs) ==
  [i \in 1..Len(relevantDocs) |->
     [index |-> i,
      title |-> Field(relevantDocs[i].payload, "title", "Untitled"),
      content |-> Field(relevantDocs[i].payload, "content",
                    Field(relevantDocs[i].payload, "snippet",
                          "No content available")),
      published |-> Field(relevantDocs[i].payload, "publishedAt",
                          "Unknown date")]]

(* generateFallbackResponse: template choice by the first bucket one of   *)
(* whose keywords occurs in the query, then the first "{sources}" of the  *)
(* template text (which has the query interpolated before the             *)
(* placeholder) is replaced by the formatted list.                        *)

RecencyKeywords == {"yesterday", "recent", "latest", "today", "news"}
TechKeywords == {"technology", "tech", "ai", "artificial intelligence"}
BusinessKeywords == {"business", "market", "finance", "economic"}

Includes(query, keywords) == \E i \in DOMAIN query : query[i] \in keywords

(* query.toLowerCase() *)
toLowerCase(query) ==
  [i \in DOMAIN query |->
     CASE query[i] = "AI" -> "ai" [] query[i] = "News" -> "news"
       [] OTHER -> query[i]]

matchedTemplateBusinessFirst(query) ==
  IF Includes(toLowerCase(query), RecencyKeywords) THEN "recency"
  ELSE IF Includes(toLowerCase(query), BusinessKeywords) THEN "business"
  ELSE IF Includes(toLowerCase(query), TechKeywords) THEN "technology"
  ELSE "generic"

matchedTemplate(query) ==
  IF Includes(toLowerCase(query), RecencyKeywords) THEN "recency"
  ELSE IF Includes(toLowerCase(query), TechKeywords) THEN "technology"
  ELSE IF Includes(toLowerCase(query), BusinessKeywords) THEN "business"
  ELSE "generic"

TemplateText(bucket, query) ==
  <<"head:" \o bucket, "\"">> \o query \o
  <<"\"", "{sources}", "tail:" \o bucket>>

SourceEntry(doc, index) ==
  <<"entry", ToString(index), Field(doc.payload, "title", Undefined),
    Field(doc.payload, "source", Undefined),
    Field(doc.payload, "snippet", "No preview available")>>

RECURSIVE FormatSources(_, _)
FormatSources(documents, index) ==
  IF index > Len(documents) THEN <<>>
  ELSE SourceEntry(documents[index], index)
         \o FormatSources(documents, index + 1)

NoSourcesText == <<"No specific sources found">>

sourcesTextNone(documents) == NoSourcesText

sourcesText(documents) ==
  IF Len(documents) > 0 THEN FormatSources(documents, 1) ELSE NoSourcesText

(* String.prototype.replace with a string pattern: first occurrence only *)
ReplaceFirst(text, atom, replacement) ==
  IF \E i \in DOMAIN text : text[i] = atom
  THEN LET i == CHOOSE i \in DOMAIN text :
                  /\ text[i] = atom
                  /\ \A j \in 1..(i - 1) : text[j] # atom
       IN SubSeq(text, 1, i - 1) \o replacement
            \o SubSeq(text, i + 1, Len(text))
  ELSE text

generateFallbackResponse(query, documents) ==
  ReplaceFirst(TemplateText(matchedTemplate(query), query), "{sources}",
               sourcesText(documents))

(* doc.payload.title throws a TypeError for a document without payload *)
HasPayload(doc) == "payload" \in DOMAIN doc

(* a call of generateFallbackResponse: what it returns, or that it threw *)
FallbackOutcome(query, documents) ==
  IF \E i \in DOMAIN documents : ~HasPayload(documents[i])
  THEN [threw |-> TRUE, text |-> <<>>]
  ELSE [threw |-> FALSE, text |-> generateFallbackResponse(query, documents)]

SuccessResult(query, relevantDocs, aiResponse, processingTime) ==
  [answer |-> aiResponse,
   sources |-> BuildSources(relevantDocs),
   metadata |-> [processingTime |-> processingTime,
                 documentsFound |-> Len(relevantDocs),
                 sourcesUsed |-> Len(BuildSources(relevantDocs)),
                 queryLength |-> StrLen(query),
                 modelUsed |-> GeminiModel,
                 timestamp |-> Timestamp]]

FallbackResult(query, relevantDocs, processingTime) ==
  [answer |-> generateFallbackResponse(query, relevantDocs),
   sources |-> BuildSources(relevantDocs),
   metadata |-> [processingTime |-> processingTime,
                 documentsFound |-> Len(relevantDocs),
                 sourcesUsed |-> Len(BuildSources(relevantDocs)),
                 modelUsed |-> "fallback-template",
                 error |-> "AI model temporarily unavailable",
                 timestamp |-> Timestamp]]

ErrorResult(query, message, processingTime) ==
  [answer |-> <<"I apologize", "\"">> \o query \o <<"\"", "Thank you">>,
   sources |-> <<>>,
   metadata |-> [processingTime |-> processingTime,
                 error |-> message,
                 modelUsed |-> "error-fallback",
                 timestamp |-> Timestamp]]

----------------------------------------------------------------------------
(* The session store, src/config/redis.js *)

KeyShared(sessionId) == <<"session:", "any">>

Key(sessionId) == <<"session:", sessionId>>

NullableKeys == {"ipAddress", "userAgent"}

(* JSON.stringify drops the keys of an object whose value is undefined *)
DropUndefined(obj) ==
  [k \in {k \in DOMAIN obj : ~(k \in NullableKeys /\ obj[k] = Undefined)}
     |-> obj[k]]

JSONMessage(m) ==
  [k \in DOMAIN m |->
     IF k = "metadata" THEN DropUndefined(m[k]) ELSE m[k]]

JSONstringify(sessionData) ==
  [json |-> [sessionData EXCEPT !.messages =
               [i \in 1..Len(sessionData.messages) |->
                  JSONMessage(sessionData.messages[i])]]]

JSONparse(data) == data.json

EmptyStore == [k \in {} |-> 0]

(* client.setex(key, ttl, JSON.stringify(sessionData)) *)
saveSession(st, sessionId, messages, time) ==
  LET sessionData == [sessionId |-> sessionId,
                      messages |-> messages,
                      lastUpdated |-> time,
                      messageCount |-> Len(messages)]
      key == Key(sessionId)
  IN [k \in DOMAIN st \cup {key} |->
        IF k = key
        THEN [val |-> JSONstringify(sessionData), ttl |-> DefaultTTL]
        ELSE st[k]]

(* values under a session key that saveSession did not write: text that   *)
(* JSON.parse rejects, and JSON without a messages property                *)
Garbage == [text |-> "not json"]
NoMessages == [json |-> [sessionId |-> "other"]]
ForeignValues == {Garbage, NoMessages}

(* JSON.parse(data) returns rather than throws *)
Parses(data) == "json" \in DOMAIN data

(* the try block of getSession: client.get(key); [] when there is no data; *)
(* JSON.parse(data); sessionData.messages || []                            *)
getSessionTry(st, sessionId, readOk) ==
  IF ~readOk THEN [threw |-> TRUE, messages |-> <<>>]
  ELSE IF Key(sessionId) \notin DOMAIN st
  THEN [threw |-> FALSE, messages |-> <<>>]
  ELSE IF ~Parses(st[Key(sessionId)].val)
  THEN [threw |-> TRUE, messages |-> <<>>]
  ELSE [threw |-> FALSE,
        messages |-> Field(JSONparse(st[Key(sessionId)].val),
                           "messages", <<>>)]

getSessionRethrow(attempt) == attempt

(* the catch block of getSession: the error is logged and [] returned *)
getSessionCatch(attempt) ==
  IF attempt.threw THEN [threw |-> FALSE, messages |-> <<>>] ELSE attempt

getSessionResult(st, sessionId, readOk) ==
  getSessionCatch(getSessionTry(st, sessionId, readOk))

getSessionTruncated(st, sessionId, readOk) ==
  LET messages == getSessionResult(st, sessionId, readOk).messages
  IN SubSeq(messages, 1, Len(messages) - 1)

(* what getSession returns: the stored messages, [] when the key is absent *)
(* and from the catch block when the read or the parse fails               *)
getSession(st, sessionId, readOk) ==
  getSessionResult(st, sessionId, readOk).messages

(* client.del(key): the keyspace afterwards, and result === 1 *)
deleteSession(st, sessionId) ==
  [k \in DOMAIN st \ {Key(sessionId)} |-> st[k]]

wasDeletedAlways(st, sessionId) == TRUE

wasDeleted(st, sessionId) == Key(sessionId) \in DOMAIN st

extendSessionTTLCreate(st, sessionId) ==
  saveSession(st, sessionId, getSession(st, sessionId, TRUE), 0)

(* client.expire(key, newTTL): the keyspace afterwards, and result === 1 *)
extendSessionTTL(st, sessionId) ==
  [k \in DOMAIN st |->
     IF k = Key(sessionId) THEN [st[k] EXCEPT !.ttl = DefaultTTL]
     ELSE st[k]]

extended(st, sessionId) == Key(sessionId) \in DOMAIN st

(* what a call of extendSessionTTL ends in: result === 1 from the try      *)
(* block, false from the catch block when the command fails                *)
extendSessionTTLResult(st, sessionId, expireOk) ==
  IF expireOk THEN [threw |-> FALSE, value |-> extended(st, sessionId)]
  ELSE [threw |-> FALSE, value |-> FALSE]

ElapseKeep(st) ==
  [k \in DOMAIN st |-> [st[k] EXCEPT !.ttl = @ - TickSeconds]]

(* Redis expiry: after TickSeconds more seconds every key whose time to    *)
(* live has run out is gone                                                *)
Elapse(st) ==
  [k \in {k \in DOMAIN st : st[k].ttl > TickSeconds} |->
     [st[k] EXCEPT !.ttl = @ - TickSeconds]]

Expired(st) == {k \in DOMAIN st : st[k].ttl <= TickSeconds}

StoredMessages(st, sessionId) == getSession(st, sessionId, TRUE)

(* the ids of the messages stored for a session *)
StoredIds(sessionId) ==
  {StoredMessages(store, sessionId)[i].id :
     i \in DOMAIN StoredMessages(store, sessionId)}

----------------------------------------------------------------------------
(* History variable, for one session (the sessions are alike): the list    *)
(* given to the last saveSession that no delete or expiry has undone, the  *)
(* last two getSession calls (what each returned and whether its read      *)
(* succeeded), and what happened between them and since.  Kept apart from  *)
(* the keyspace: the list of the last saveSession (last), whether a        *)
(* deleteSession followed it (gone), and the ticks gone by since the last  *)
(* saveSession or effective extendSessionTTL (age).                        *)

Watched == "s1"

NoHist ==
  [saved |-> <<>>, read |-> <<>>, prev |-> <<>>,
   savedBetween |-> FALSE, removedBetween |-> FALSE,
   savedSince |-> FALSE, removedSince |-> FALSE,
   last |-> <<>>, gone |-> FALSE, age |-> 0]

HistSave(h, sessionId, messages) ==
  IF sessionId # Watched THEN h
  ELSE [h EXCEPT !.saved = <<messages>>, !.savedSince = TRUE,
                 !.last = <<messages>>, !.gone = FALSE, !.age = 0]

HistRemove(h, sessionIds) ==
  IF Watched \notin sessionIds THEN h
  ELSE [h EXCEPT !.saved = <<>>, !.removedSince = TRUE]

(* the time to live set by the last renewal has not run out *)
WithinTTL(h) == h.age * TickSeconds < DefaultTTL

(* deleteSession answered *)
HistDelete(h, sessionId) ==
  IF sessionId # Watched THEN h
  ELSE [HistRemove(h, {sessionId}) EXCEPT !.gone = TRUE]

(* extendSessionTTL answered: a renewal when the record is still there *)
HistExtend(h, sessionId) ==
  IF sessionId = Watched /\ h.last # <<>> /\ ~h.gone /\ WithinTTL(h)
  THEN [h EXCEPT !.age = 0]
  ELSE h

(* TickSeconds pass *)
HistTick(h, expired) ==
  [HistRemove(h, expired) EXCEPT
     !.age = IF h.last # <<>> /\ WithinTTL(h) THEN @ + 1 ELSE @]

HistGet(h, sessionId, got, readOk) ==
  IF sessionId # Watched THEN h
  ELSE [h EXCEPT !.read = <<[got |-> got, ok |-> readOk]>>,
                 !.prev = h.read,
                 !.savedBetween = h.savedSince,
                 !.removedBetween = h.removedSince,
                 !.savedSince = FALSE, !.removedSince = FALSE]

----------------------------------------------------------------------------
(* The turn handlers, src/controllers/chatController.js *)

TurnIds == 1..NumTurns
Channels == {"rest", "socket"}
UserAgents == {Undefined}

(* awaits: the awaits that have resolved since the turn's list came back   *)
(* from getSession; pushes: for each push on the list, how many there had  *)
(* been; readFailed: the turn's getSession answered from its catch block   *)
IdleTurn ==
  [pc |-> "idle", channel |-> "none", sid |-> "none", query |-> <<>>,
   userAgent |-> Undefined, messages |-> <<>>, userId |-> 0, botId |-> 0,
   events |-> <<>>, saves |-> <<>>, awaits |-> 0, pushes |-> <<>>,
   readFailed |-> FALSE]

DocHigh ==
  [id |-> "d1", score |-> 85,
   payload |-> [title |-> "t1", source |-> "src1", url |-> "u1",
                content |-> "c1", snippet |-> "sn1", publishedAt |-> "p1"]]
DocEdge == [id |-> "d2", score |-> 70, payload |-> [title |-> "t2"]]
DocLow == [id |-> "d3", score |-> 60, payload |-> [source |-> "src3"]]
DocBare == [id |-> "d4", score |-> 71, payload |-> [k \in {} |-> Undefined]]

(* what generateRAGResponse hands back to a turn handler *)
RAGResponses(query) ==
  {SuccessResult(query, <<DocHigh>>, Chars(MinResponseLength + 1), 0),
   FallbackResult(query, <<>>, 0)}

PushFront(messages, message) == <<message>> \o messages

PushBeforeLast(messages, message) ==
  IF messages = <<>> THEN <<message>>
  ELSE SubSeq(messages, 1, Len(messages) - 1)
         \o <<message, messages[Len(messages)]>>

(* messages.push(message) *)
Push(messages, message) == Append(messages, message)

UserMessageOf(channel, query, userAgent, id) ==
  [id |-> id, type |-> "user", content |-> query,
   timestamp |-> Timestamp,
   metadata |->
     IF channel = "socket"
     THEN [socketId |-> "socket", ipAddress |-> "ip"]
     ELSE [method |-> "REST", ipAddress |-> "ip", userAgent |-> userAgent]]

UserMessage(t, id) ==
  UserMessageOf(turns[t].channel, turns[t].query, turns[t].userAgent, id)

BotMessageOf(channel, id, ragResponse) ==
  [id |-> id, type |-> "bot", content |-> ragResponse.answer,
   sources |-> ragResponse.sources,
   metadata |->
     IF channel = "socket" THEN ragResponse.metadata
     ELSE [ragResponse.metadata EXCEPT !.processingTime = Elapsed],
   timestamp |-> Timestamp]

BotMessage(t, id, ragResponse) ==
  BotMessageOf(turns[t].channel, id, ragResponse)

(* The synchronous head of both handlers: schema validation, then          *)
(* validateQuery, then the getSession request is issued.                   *)
Receive(t, channel, sessionId, message, userAgent) ==
  /\ turns[t].pc = "idle"
  /\ \A u \in TurnIds : u < t => turns[u].pc # "idle"
  /\ LET queryValidation == validateQuery(message)
         accepted == /\ messageSchemaValid(sessionId, message)
                     /\ queryValidation.valid
     IN turns' = [turns EXCEPT ![t] =
          [@ EXCEPT !.pc = IF accepted THEN "get" ELSE "rejected",
                    !.channel = channel,
                    !.sid = sessionId,
                    !.query = IF accepted THEN queryValidation.query
                              ELSE <<>>,
                    !.userAgent = IF channel = "rest" THEN userAgent
                                  ELSE Undefined,
                    !.events = IF accepted THEN <<>>
                               ELSE IF channel = "rest" THEN <<"res:400">>
                               ELSE <<"error">>]]
  /\ UNCHANGED <<store, now, viewer, nextId, faults, hist, rag>>

(* await getSession(sessionId) and the code up to the next await: the user *)
(* message is created and pushed; the socket handler goes on to save, the  *)
(* REST handler to generateRAGResponse.                                    *)
LoadSession(t, readOk) ==
  /\ turns[t].pc = "get"
  /\ readOk \/ faults < MaxFaults
  /\ LET sid == turns[t].sid
         messages == getSession(store, sid, readOk)
         userMessage == UserMessage(t, nextId)
     IN /\ turns' = [turns EXCEPT ![t] =
              [@ EXCEPT !.pc = IF turns[t].channel = "socket" THEN "saveUser"
                               ELSE "rag",
                        !.messages = Push(messages, userMessage),
                        !.awaits = 0,
                        !.pushes = <<0>>,
                        !.readFailed = ~readOk,
                        !.userId = nextId]]
  /\ nextId' = nextId + 1
  /\ faults' = IF readOk THEN faults ELSE faults + 1
  /\ UNCHANGED <<store, now, viewer, hist, rag>>

FailQuiet(t) ==
  [turns EXCEPT ![t] =
     [@ EXCEPT !.pc = "failed",
               !.events = @ \o (IF turns[t].channel = "socket"
                                THEN <<"bot_typing:false", "new_message:bot">>
                                ELSE <<"res:200">>)]]

FailTypingLeftOn(t) ==
  [turns EXCEPT ![t] =
     [@ EXCEPT !.pc = "failed",
               !.events = @ \o (IF turns[t].channel = "socket"
                                THEN <<"new_message:error">>
                                ELSE <<"res:500">>)]]

(* the catch block of the socket handler / of sendMessage *)
Fail(t) ==
  [turns EXCEPT ![t] =
     [@ EXCEPT !.pc = "failed",
               !.events = @ \o (IF turns[t].channel = "socket"
                                THEN <<"bot_typing:false",
                                       "new_message:error">>
                                ELSE <<"res:500">>)]]

(* the saveSession calls a turn has had answered: for each, whether the    *)
(* list written held the turn's user message and its bot message           *)
Saved(turn) ==
  Append(turn.saves,
         [user |-> \E i \in DOMAIN turn.messages :
                     turn.messages[i].id = turn.userId,
          bot |-> \E i \in DOMAIN turn.messages :
                    turn.messages[i].id = turn.botId])

(* socket only: await saveSession(sessionId, messages) after the user      *)
(* message, then new_message and bot_typing(true)                          *)
SaveUserMessage(t, writeOk) ==
  /\ turns[t].pc = "saveUser"
  /\ writeOk \/ faults < MaxFaults
  /\ LET sid == turns[t].sid IN
     IF writeOk
     THEN /\ store' = saveSession(store, sid, turns[t].messages, now)
          /\ turns' = [turns EXCEPT ![t] =
                [@ EXCEPT !.pc = "rag",
                          !.saves = Saved(turns[t]),
                          !.awaits = @ + 1,
                          !.events = @ \o <<"new_message:user",
                                            "bot_typing:true">>]]
          /\ UNCHANGED <<faults, nextId>>
     ELSE /\ turns' = Fail(t)
          /\ faults' = faults + 1
          /\ nextId' = nextId + 1
          /\ UNCHANGED store
  /\ UNCHANGED <<now, viewer, hist, rag>>

(* await generateRAGResponse(query, sessionId), then the bot message is    *)
(* created and pushed on the list loaded before the call                   *)
GenerateReply(t, ragResponse) ==
  /\ turns[t].pc = "rag"
  /\ LET botMessage == BotMessage(t, nextId, ragResponse) IN
     turns' = [turns EXCEPT ![t] =
        [@ EXCEPT !.pc = "saveBot",
                  !.messages = Push(@, botMessage),
                  !.awaits = @ + 1,
                  !.pushes = Append(@, turns[t].awaits + 1),
                  !.botId = nextId]]
  /\ nextId' = nextId + 1
  /\ UNCHANGED <<store, now, viewer, faults, hist>>

Generate(t, ragResponse) == GenerateReply(t, ragResponse) /\ UNCHANGED rag

(* await saveSession(sessionId, messages) after the bot message, then the  *)
(* reply: bot_typing(false) and new_message, or res.json                   *)
SaveBotMessage(t, writeOk) ==
  /\ turns[t].pc = "saveBot"
  /\ writeOk \/ faults < MaxFaults
  /\ LET sid == turns[t].sid IN
     IF writeOk
     THEN /\ store' = saveSession(store, sid, turns[t].messages, now)
          /\ turns' = [turns EXCEPT ![t] =
                [@ EXCEPT !.pc = "done",
                          !.saves = Saved(turns[t]),
                          !.events = @ \o
                            (IF turns[t].channel = "socket"
                             THEN <<"bot_typing:false", "new_message:bot">>
                             ELSE <<"res:200">>)]]
          /\ UNCHANGED <<faults, nextId>>
     ELSE /\ turns' = Fail(t)
          /\ faults' = faults + 1
          /\ nextId' = IF turns[t].channel = "socket" THEN nextId + 1
                       ELSE nextId
          /\ UNCHANGED store
  /\ UNCHANGED <<now, viewer, hist, rag>>

----------------------------------------------------------------------------
(* The other socket events that use the store: join_session and           *)
(* clear_session.                                                          *)

(* wiped: the ids of the messages that were stored when clear_session's    *)
(* deleteSession removed the record (history, read by no handler)          *)
IdleViewer == [pc |-> "idle", sid |-> "none", count |-> 0, wiped |-> {}]

(* join_session: getSession, session_history, and extendSessionTTL next    *)
(* when the history is not empty                                           *)
JoinSession(sessionId, readOk) ==
  /\ viewer.pc = "idle"
  /\ viewer.count < MaxViews
  /\ readOk \/ faults < MaxFaults
  /\ LET messages == getSession(store, sessionId, readOk) IN
     viewer' = [pc |-> IF Len(messages) > 0 THEN "extend" ELSE "idle",
                sid |-> sessionId, count |-> viewer.count + 1,
                wiped |-> {}]
  /\ faults' = IF readOk THEN faults ELSE faults + 1
  /\ UNCHANGED <<store, now, turns, nextId, hist, rag>>

(* await extendSessionTTL(sessionId): false, and nothing done, on failure *)
JoinExtend(expireOk) ==
  /\ viewer.pc = "extend"
  /\ expireOk \/ faults < MaxFaults
  /\ store' = IF expireOk THEN extendSessionTTL(store, viewer.sid) ELSE store
  /\ viewer' = [viewer EXCEPT !.pc = "idle"]
  /\ faults' = IF expireOk THEN faults ELSE faults + 1
  /\ UNCHANGED <<now, turns, nextId, hist, rag>>

(* clear_session: deleteSession, which throws when the command fails *)
ClearSession(sessionId, delOk) ==
  /\ viewer.pc = "idle"
  /\ viewer.count < MaxViews
  /\ delOk \/ faults < MaxFaults
  /\ IF delOk
     THEN /\ store' = deleteSession(store, sessionId)
          /\ UNCHANGED faults
     ELSE /\ faults' = faults + 1
          /\ UNCHANGED store
  /\ viewer' = [viewer EXCEPT !.sid = sessionId, !.count = @ + 1,
                             !.wiped = IF delOk THEN StoredIds(sessionId)
                                       ELSE {}]
  /\ UNCHANGED <<now, turns, nextId, hist, rag>>

----------------------------------------------------------------------------
(* The store's functions called one at a time, as any handler may call     *)
(* them, with the passing of time.                                         *)

SampleSocketUser == UserMessageOf("socket", Trim(QueryPadded), Undefined, 1)
SampleRestUser == UserMessageOf("rest", QueryNews, Undefined, 2)
SampleRestUserUA == UserMessageOf("rest", QueryNews, "ua", 4)
SampleBot == BotMessageOf("rest", 3, FallbackResult(QueryNews, <<DocHigh>>, 0))

SampleLists ==
  {<<>>, <<SampleRestUser, SampleBot>>,
   <<SampleSocketUser, SampleBot, SampleRestUserUA>>}

getSessionTouch(st, sessionId) == extendSessionTTL(st, sessionId)

(* client.get(key) leaves the keyspace, expiry included, as it is *)
getSessionEffect(st, sessionId) == st

StoreSave(sessionId, messages, writeOk) ==
  /\ writeOk \/ faults < MaxFaults
  /\ IF writeOk
     THEN /\ store' = saveSession(store, sessionId, messages, now)
          /\ hist' = HistSave(hist, sessionId, messages)
          /\ UNCHANGED faults
     ELSE /\ faults' = faults + 1
          /\ UNCHANGED <<store, hist>>
  /\ UNCHANGED <<now, turns, viewer, nextId, rag>>

StoreGet(sessionId, readOk) ==
  /\ readOk \/ faults < MaxFaults
  /\ hist' = HistGet(hist, sessionId,
                     getSession(store, sessionId, readOk), readOk)
  /\ store' = IF readOk THEN getSessionEffect(store, sessionId) ELSE store
  /\ faults' = IF readOk THEN faults ELSE faults + 1
  /\ UNCHANGED <<now, turns, viewer, nextId, rag>>

StoreDelete(sessionId, delOk) ==
  /\ delOk \/ faults < MaxFaults
  /\ IF delOk
     THEN /\ store' = deleteSession(store, sessionId)
          /\ hist' = HistDelete(hist, sessionId)
          /\ UNCHANGED faults
     ELSE /\ faults' = faults + 1
          /\ UNCHANGED <<store, hist>>
  /\ UNCHANGED <<now, turns, viewer, nextId, rag>>

StoreExtend(sessionId, expireOk) ==
  /\ expireOk \/ faults < MaxFaults
  /\ store' = IF expireOk THEN extendSessionTTL(store, sessionId) ELSE store
  /\ hist' = IF expireOk THEN HistExtend(hist, sessionId) ELSE hist
  /\ faults' = IF expireOk THEN faults ELSE faults + 1
  /\ UNCHANGED <<now, turns, viewer, nextId, rag>>

(* another client of the same Redis leaves a value of its own under the   *)
(* session's key; counted with the failures                                *)
StoreForeign(sessionId, value) ==
  /\ faults < MaxFaults
  /\ store' = [k \in DOMAIN store \cup {Key(sessionId)} |->
                 IF k = Key(sessionId)
                 THEN [val |-> value, ttl |-> DefaultTTL]
                 ELSE store[k]]
  /\ hist' = HistDelete(hist, sessionId)
  /\ faults' = faults + 1
  /\ UNCHANGED <<now, turns, viewer, nextId, rag>>

(* TickSeconds pass: keys whose time to live ran out are evicted *)
Tick ==
  /\ now < MaxTicks
  /\ now' = now + 1
  /\ store' = Elapse(store)
  /\ hist' = HistTick(hist, {s \in SessionIds : Key(s) \in Expired(store)})
  /\ UNCHANGED <<turns, viewer, nextId, faults, rag>>

----------------------------------------------------------------------------
(* generateRAGResponse, ragService.js, one await at a time, with           *)
(* generateEmbedding of jinaService.js, searchVectors of qdrantService.js  *)
(* and generateWithGemini.                                                 *)

JinaMaxRetries == 2
JinaRetryDelay == 1000
GeminiMaxRetries == 3
GeminiRetryDelay == 2000
SearchLimit == 5

MockDoc(n, score) ==
  [id |-> "mock-" \o ToString(n), score |-> score,
   payload |-> [title |-> "mock title", source |-> "BBC News",
                url |-> "mock url", content |-> "mock content",
                snippet |-> "mock snippet", publishedAt |-> "2025-09-17",
                category |-> "mock category"]]

getMockSearchResults ==
  <<MockDoc(1, 85), MockDoc(2, 82), MockDoc(3, 79), MockDoc(4, 76),
    MockDoc(5, 73)>>

(* what the vector store may answer *)
SearchAnswers ==
  {<<>>, <<DocHigh, DocLow>>, <<DocEdge>>, <<DocLow, DocBare, DocHigh>>}

(* what one request to the embedding provider may end in *)
EmbeddingOutcomes ==
  {"ok", "nonarray", "network", "http4xx", "http5xx", "malformed"}

(* what one request to the vector store may end in *)
SearchOutcomes == {"ok", "noresult", "fail"}

(* what one model.generateContent call may end in: a text, or an error    *)
(* with its message                                                        *)
GeminiOutcomes ==
  {[kind |-> "text", text |-> Chars(0)],
   [kind |-> "text", text |-> Chars(MinResponseLength)],
   [kind |-> "text", text |-> Chars(MinResponseLength + 1)],
   [kind |-> "error", text |-> <<"503", " ", "overloaded">>],
   [kind |-> "error", text |-> <<"4", "0", "0">>]}

RetryableMarks == {"503", "overloaded", "quota", "rate limit"}

(* error.message.includes("503") || ... || includes("rate limit") *)
IsRetryable(message) == \E i \in DOMAIN message : message[i] \in RetryableMarks

AcceptableTextInclusive(text) ==
  Len(text) > 0 /\ StrLen(text) >= MinResponseLength

AcceptAnyText(text) == TRUE

(* text && text.length > 10 *)
AcceptableText(text) == Len(text) > 0 /\ StrLen(text) > MinResponseLength

backoffFlat(attempt) == GeminiRetryDelay

(* const delay = retryDelay * attempt *)
backoff(attempt) == GeminiRetryDelay * attempt

RagQueries ==
  {QueryNews, QuerySources, QueryPadded, QueryShort, QueryEmpty, QueryBlank,
   QueryTabs, QueryMax, QueryLong} \cup NonStrings

IdleRag == [pc |-> "idle"]

StartRag(query, jinaKey, qdrantKey) ==
  [pc |-> "validate", query |-> query, clean |-> <<>>,
   jinaKey |-> jinaKey, qdrantKey |-> qdrantKey,
   embAttempt |-> 0, embLog |-> <<>>, embedding |-> "none",
   searchLog |-> <<>>, searchVector |-> "none", searchResults |-> <<>>,
   relevantDocs |-> <<>>, context |-> <<>>,
   genAttempt |-> 0, genLog |-> <<>>, genWaits |-> <<>>,
   genThrew |-> FALSE,
   waited |-> 0, result |-> <<>>]

Finish(r, result) == [r EXCEPT !.pc = "done", !.result = <<result>>]

(* query.substring(...) returns rather than throws a TypeError *)
HasSubstring(query) == IsString(query)

(* the log call with query.substring(0, 100), validateQuery, then the call *)
(* of generateEmbedding up to its first await: without an API key the mock *)
(* embedding is returned at once.  When query.substring throws, the outer  *)
(* catch is entered and its own log call with query.substring(0, 50)       *)
(* throws again, out of generateRAGResponse.                               *)
RagValidate ==
  /\ rag.pc = "validate"
  /\ LET validation == validateQuery(rag.query) IN
     rag' =
       IF ~HasSubstring(rag.query)
       THEN [rag EXCEPT !.pc = "threw"]
       ELSE IF ~validation.valid
       THEN Finish(rag, ErrorResult(rag.query, "Invalid query", rag.waited))
       ELSE IF ~rag.jinaKey
       THEN [rag EXCEPT !.pc = "search", !.clean = validation.query,
                        !.embedding = "mock"]
       ELSE [rag EXCEPT !.pc = "embed", !.clean = validation.query,
                        !.embAttempt = 1]
  /\ UNCHANGED gatewayVars

RagEmbedUnbounded(outcome) ==
  /\ rag.pc = "embed"
  /\ LET attempt == rag.embAttempt
         logged == [rag EXCEPT !.embLog = Append(@, outcome)]
     IN rag' =
       IF outcome = "ok"
       THEN [logged EXCEPT !.pc = "search", !.embedding = "real"]
       ELSE IF outcome = "nonarray"
       THEN Finish([logged EXCEPT !.embedding = "nonarray"],
                   ErrorResult(rag.query,
                               "Failed to generate embedding for query",
                               rag.waited))
       ELSE IF outcome = "http4xx"
       THEN [logged EXCEPT !.pc = "search", !.embedding = "mock"]
       ELSE [logged EXCEPT !.embAttempt = attempt + 1,
                           !.waited = @ + JinaRetryDelay * attempt]
  /\ UNCHANGED gatewayVars

(* one client.post of generateEmbedding and what follows it: the           *)
(* embedding is returned, or the attempt is repeated after a wait, or the  *)
(* outer catch returns the mock embedding; then the orchestrator's test    *)
(* of what it was given                                                    *)
RagEmbed(outcome) ==
  /\ rag.pc = "embed"
  /\ LET attempt == rag.embAttempt
         logged == [rag EXCEPT !.embLog = Append(@, outcome)]
     IN rag' =
       IF outcome = "ok"
       THEN [logged EXCEPT !.pc = "search", !.embedding = "real"]
       ELSE IF outcome = "nonarray"
       THEN Finish([logged EXCEPT !.embedding = "nonarray"],
                   ErrorResult(rag.query,
                               "Failed to generate embedding for query",
                               rag.waited))
       ELSE IF attempt = JinaMaxRetries \/ outcome = "http4xx"
       THEN [logged EXCEPT !.pc = "search", !.embedding = "mock"]
       ELSE [logged EXCEPT !.embAttempt = attempt + 1,
                           !.waited = @ + JinaRetryDelay * attempt]
  /\ UNCHANGED gatewayVars

(* searchVectors(embedding, 5): the mock articles without configuration    *)
(* and from the catch block; then the relevance filter, the context and    *)
(* the call of generateWithGemini up to its first await                    *)
RagSearch(outcome, answer) ==
  /\ rag.pc = "search"
  /\ Len(answer) <= SearchLimit
  /\ LET effective == IF rag.qdrantKey THEN outcome ELSE "unconfigured"
         searchResults ==
           IF effective = "ok" THEN answer
           ELSE IF effective = "noresult" THEN <<>>
           ELSE getMockSearchResults
         relevantDocs == relevantFilter(searchResults)
     IN rag' = [rag EXCEPT !.pc = "generate",
                           !.searchLog = Append(@, effective),
                           !.searchVector = rag.embedding,
                           !.searchResults = searchResults,
                           !.relevantDocs = relevantDocs,
                           !.context = BuildContext(relevantDocs),
                           !.genAttempt = 1]
  /\ UNCHANGED gatewayVars

(* one model.generateContent call of generateWithGemini and what follows   *)
(* it: the text is returned, or the loop goes on (after a wait when the    *)
(* error is retryable), or the error is thrown on the last attempt and     *)
(* the orchestrator answers from the fallback template                     *)
RagGenerate(outcome) ==
  /\ rag.pc = "generate"
  /\ LET attempt == rag.genAttempt
         logged == [rag EXCEPT !.genLog = Append(@, outcome)]
         message == IF outcome.kind = "text"
                    THEN <<"Empty or invalid response from Gemini">>
                    ELSE outcome.text
     IN rag' =
       IF outcome.kind = "text" /\ AcceptableText(outcome.text)
       THEN Finish(logged, SuccessResult(rag.clean, rag.relevantDocs,
                                         outcome.text, rag.waited))
       ELSE IF IsRetryable(message) /\ attempt < GeminiMaxRetries
       THEN [logged EXCEPT !.genAttempt = attempt + 1,
                           !.genWaits = Append(@, backoff(attempt)),
                           !.waited = @ + backoff(attempt)]
       ELSE IF attempt = GeminiMaxRetries
       THEN Finish([logged EXCEPT !.genThrew = TRUE],
                   FallbackResult(rag.clean, rag.relevantDocs, rag.waited))
       ELSE [logged EXCEPT !.genAttempt = attempt + 1,
                           !.genWaits = Append(@, 0)]
  /\ UNCHANGED gatewayVars

----------------------------------------------------------------------------
(* embeddingService: generateEmbedding and generateBatchEmbeddings, one    *)
(* await at a time.  A vector is written by its kind, its dimension and    *)
(* the place in texts of the text it was computed for (0: none).           *)

MAX_RETRIES == 3
RETRY_DELAY == 1000
VectorSize == 768
MaxTexts == 2

RealVector == [kind |-> "real", dim |-> VectorSize, input |-> 0]
ZeroVector == [kind |-> "zero", dim |-> VectorSize, input |-> 0]
NoVector == [kind |-> "undefined", dim |-> 0, input |-> 0]

For(vector, place) == [vector EXCEPT !.input = place]

TextOk == <<"a">>
EmbedTexts == {TextOk, QueryEmpty, JSNumber}

(* a text list of every length up to MaxTexts, and a value that is no array *)
BatchInputs ==
  {[isArray |-> FALSE, texts |-> <<>>]} \cup
  {[isArray |-> TRUE, texts |-> texts] :
     texts \in UNION {[1..n -> EmbedTexts] : n \in 0..MaxTexts}}

BatchSizes == {1, 2}

PostOutcomes == {"ok", "network", "http4xx", "http5xx", "malformed"}
BatchPostOutcomes == {"ok", "noembedding", "short", "fail"}

StartEmbed(mode, apiKey, text, input, batchSize) ==
  [pc |-> IF mode = "single" THEN "embed" ELSE "batch", mode |-> mode,
   apiKey |-> apiKey, isArray |-> input.isArray, texts |-> input.texts,
   batchSize |-> batchSize, i |-> 0, k |-> 0, text |-> text,
   attempt |-> 0, requests |-> 0, waits |-> <<>>, retried |-> FALSE,
   allEmbeddings |-> <<>>]

(* texts.slice(i, i + batchSize) *)
Batch(r) ==
  SubSeq(r.texts, r.i + 1,
         IF r.i + r.batchSize < Len(r.texts) THEN r.i + r.batchSize
         ELSE Len(r.texts))

(* the next turn of the loop over the groups, or the end of the loop *)
NextBatch(r) ==
  IF r.i + r.batchSize < Len(r.texts)
  THEN [r EXCEPT !.pc = "group", !.i = @ + r.batchSize, !.k = 0]
  ELSE [r EXCEPT !.pc = "finish"]

(* the next turn of the loop over the texts of a failed group *)
NextText(r) ==
  IF r.k < Len(Batch(r))
  THEN [r EXCEPT !.pc = "embed", !.k = @ + 1, !.text = Batch(r)[r.k + 1],
                 !.attempt = 0, !.requests = 0, !.waits = <<>>]
  ELSE NextBatch(r)

(* generateEmbedding returns: to its caller, or into the failed group *)
EmbedReturn(r, embedding) ==
  IF r.mode = "single"
  THEN [r EXCEPT !.pc = "returned", !.allEmbeddings = <<embedding>>]
  ELSE NextText([r EXCEPT !.allEmbeddings =
                              Append(@, For(embedding, r.i + r.k))])

(* generateEmbedding throws: to its caller, or into the catch block of the *)
(* failed group, which pushes the zero vector                              *)
EmbedThrow(r) ==
  IF r.mode = "single"
  THEN [r EXCEPT !.pc = "threw"]
  ELSE NextText([r EXCEPT !.allEmbeddings =
                              Append(@, For(ZeroVector, r.i + r.k))])

(* generateEmbedding up to its first request *)
EmbedEnter ==
  /\ rag.pc = "embed"
  /\ rag' =
       IF Falsy(rag.text) \/ ~IsString(rag.text) THEN EmbedThrow(rag)
       ELSE IF ~rag.apiKey THEN EmbedThrow(rag)
       ELSE [rag EXCEPT !.pc = "post", !.attempt = 1]
  /\ UNCHANGED gatewayVars

(* one axios.post of generateEmbedding and what follows it *)
EmbedPost(outcome) ==
  /\ rag.pc = "post"
  /\ LET asked == [rag EXCEPT !.requests = @ + 1] IN
     rag' =
       IF outcome = "ok" THEN EmbedReturn(asked, RealVector)
       ELSE IF rag.attempt = MAX_RETRIES THEN EmbedThrow(asked)
       ELSE [asked EXCEPT !.attempt = @ + 1,
                          !.waits = Append(@, RETRY_DELAY * rag.attempt)]
  /\ UNCHANGED gatewayVars

(* generateBatchEmbeddings up to its first request *)
BatchEnter ==
  /\ rag.pc = "batch"
  /\ rag' =
       IF ~rag.isArray \/ Len(rag.texts) = 0
       THEN [rag EXCEPT !.pc = "threw"]
       ELSE [rag EXCEPT !.pc = "group"]
  /\ UNCHANGED gatewayVars

(* the request for one group: its embeddings are pushed as the response    *)
(* gives them, item.embedding being undefined for an item without one,     *)
(* and one fewer than the group has texts when the response is short; a    *)
(* failed request starts the loop over the texts of the group.  A request  *)
(* without API key is refused.                                             *)
BatchPost(outcome) ==
  /\ rag.pc = "group"
  /\ rag.apiKey \/ outcome = "fail"
  /\ LET n == Len(Batch(rag)) IN
     rag' =
       IF outcome = "ok"
       THEN NextBatch([rag EXCEPT !.allEmbeddings =
                         @ \o [j \in 1..n |-> For(RealVector, rag.i + j)]])
       ELSE IF outcome = "noembedding"
       THEN NextBatch([rag EXCEPT !.allEmbeddings =
                         @ \o [j \in 1..n |-> For(NoVector, rag.i + j)]])
       ELSE IF outcome = "short"
       THEN NextBatch([rag EXCEPT !.allEmbeddings =
                         @ \o [j \in 1..(n - 1) |->
                                 For(RealVector, rag.i + j)]])
       ELSE NextText([rag EXCEPT !.retried = TRUE])
  /\ UNCHANGED gatewayVars

(* the closing log call reads allEmbeddings[0].length, then the return *)
BatchFinish ==
  /\ rag.pc = "finish"
  /\ rag' =
       IF rag.allEmbeddings # <<>> /\ rag.allEmbeddings[1].kind = "undefined"
       THEN [rag EXCEPT !.pc = "threw"]
       ELSE [rag EXCEPT !.pc = "returned"]
  /\ UNCHANGED gatewayVars

----------------------------------------------------------------------------
(* generateFallbackResponse called on its own *)

QueryLatestAI == <<"latest", " ", "AI", " ", "news">>
QueryTechMarket == <<"tech", " ", "market">>
QueryMarketToday == <<"market", " ", "today">>
QuerySaid == <<"s", "ai", "d">>
QueryFinance == <<"finance">>
QueryHello == <<"h", "e", "l", "l", "o">>
QueryUpper == <<"AI">>
QueryLongKeyword == <<"artificial intelligence">>

FallbackQueries ==
  {QueryNews, QuerySources, QueryLatestAI, QueryTechMarket, QueryMarketToday,
   QuerySaid, QueryFinance, QueryHello, QueryUpper, QueryLongKeyword,
   QueryEmpty}

DocNoPayload == [id |-> "d5", score |-> 90]

FallbackDocLists ==
  {<<>>, <<DocHigh>>, <<DocBare>>, <<DocHigh, DocBare>>, <<DocNoPayload>>,
   <<DocHigh, DocNoPayload>>}

FallbackCall ==
  /\ rag.pc = "fallback"
  /\ LET outcome == FallbackOutcome(rag.query, rag.documents) IN
     rag' = [rag EXCEPT !.pc = IF outcome.threw THEN "fallback threw"
                               ELSE "fallback returned",
                        !.text = outcome.text]
  /\ UNCHANGED gatewayVars

----------------------------------------------------------------------------
Init ==
  /\ store = EmptyStore
  /\ now = 0
  /\ turns = [t \in TurnIds |-> IdleTurn]
  /\ viewer = IdleViewer
  /\ nextId = 1
  /\ faults = 0
  /\ hist = NoHist
  /\ rag = IdleRag

Next ==
  \/ \E t \in TurnIds, channel \in Channels, sessionId \in InputSessionIds,
        message \in InputMessages, userAgent \in UserAgents :
       Receive(t, channel, sessionId, message, userAgent)
  \/ \E t \in TurnIds, readOk \in BOOLEAN : LoadSession(t, readOk)
  \/ \E t \in TurnIds, writeOk \in BOOLEAN : SaveUserMessage(t, writeOk)
  \/ \E t \in TurnIds : \E ragResponse \in RAGResponses(turns[t].query) :
       Generate(t, ragResponse)
  \/ \E t \in TurnIds, writeOk \in BOOLEAN : SaveBotMessage(t, writeOk)
  \/ \E sessionId \in SessionIds, readOk \in BOOLEAN :
       JoinSession(sessionId, readOk)
  \/ \E expireOk \in BOOLEAN : JoinExtend(expireOk)
  \/ \E sessionId \in SessionIds, delOk \in BOOLEAN :
       ClearSession(sessionId, delOk)

Spec == Init /\ [][Next]_vars

(* the turn handlers alone *)
TurnStep(t) ==
  \/ \E readOk \in BOOLEAN : LoadSession(t, readOk)
  \/ \E writeOk \in BOOLEAN : SaveUserMessage(t, writeOk)
  \/ \E ragResponse \in RAGResponses(turns[t].query) :
       Generate(t, ragResponse)
  \/ \E writeOk \in BOOLEAN : SaveBotMessage(t, writeOk)

NextTurns ==
  \/ \E t \in TurnIds, channel \in Channels, sessionId \in InputSessionIds,
        message \in InputMessages, userAgent \in UserAgents :
       Receive(t, channel, sessionId, message, userAgent)
  \/ \E t \in TurnIds : TurnStep(t)

(* every await of a turn handler resolves or rejects: the cache commands   *)
(* and generateRAGResponse come back                                       *)
TurnFairness == \A t \in TurnIds : WF_vars(TurnStep(t))

SpecLive == Init /\ [][NextTurns]_vars /\ TurnFairness

(* One turn with its orchestrator: the handler calls generateRAGResponse   *)
(* with the validated query, the orchestrator runs step by step, and its   *)
(* result comes back to the handler.                                       *)
First == CHOOSE t \in TurnIds : \A u \in TurnIds : t <= u
PipeSessionIds == {"s1", "not-a-uuid"}

PipeInvoke(t) ==
  /\ turns[t].pc = "rag"
  /\ rag.pc = "idle"
  /\ \E jinaKey \in BOOLEAN, qdrantKey \in BOOLEAN :
       rag' = StartRag(turns[t].query, jinaKey, qdrantKey)
  /\ UNCHANGED gatewayVars

PipeReturn(t) ==
  /\ rag.pc = "done"
  /\ GenerateReply(t, rag.result[1])
  /\ rag' = [rag EXCEPT !.pc = "returned"]

PipeStep ==
  \/ \E readOk \in BOOLEAN : LoadSession(First, readOk)
  \/ \E writeOk \in BOOLEAN : SaveUserMessage(First, writeOk)
  \/ PipeInvoke(First)
  \/ RagValidate
  \/ \E outcome \in EmbeddingOutcomes : RagEmbed(outcome)
  \/ \E outcome \in SearchOutcomes, answer \in SearchAnswers :
       RagSearch(outcome, answer)
  \/ \E outcome \in GeminiOutcomes : RagGenerate(outcome)
  \/ PipeReturn(First)
  \/ \E writeOk \in BOOLEAN : SaveBotMessage(First, writeOk)

NextPipeline ==
  \/ \E channel \in Channels, sessionId \in PipeSessionIds,
        message \in InputMessages, userAgent \in UserAgents :
       Receive(First, channel, sessionId, message, userAgent)
  \/ PipeStep

(* every external call returns or fails *)
SpecPipeline == Init /\ [][NextPipeline]_vars /\ WF_vars(PipeStep)

NextStore ==
  \/ \E sessionId \in SessionIds, messages \in SampleLists,
        writeOk \in BOOLEAN : StoreSave(sessionId, messages, writeOk)
  \/ \E sessionId \in SessionIds, readOk \in BOOLEAN :
       StoreGet(sessionId, readOk)
  \/ \E sessionId \in SessionIds, delOk \in BOOLEAN :
       StoreDelete(sessionId, delOk)
  \/ \E sessionId \in SessionIds, expireOk \in BOOLEAN :
       StoreExtend(sessionId, expireOk)
  \/ \E sessionId \in SessionIds, value \in ForeignValues :
       StoreForeign(sessionId, value)
  \/ Tick

SpecStore == Init /\ [][NextStore]_vars

InitRAG ==
  /\ store = EmptyStore
  /\ now = 0
  /\ turns = [t \in TurnIds |-> IdleTurn]
  /\ viewer = IdleViewer
  /\ nextId = 1
  /\ faults = 0
  /\ hist = NoHist
  /\ \E query \in RagQueries, jinaKey \in BOOLEAN, qdrantKey \in BOOLEAN :
       rag = StartRag(query, jinaKey, qdrantKey)

NextRAG ==
  \/ RagValidate
  \/ \E outcome \in EmbeddingOutcomes : RagEmbed(outcome)
  \/ \E outcome \in SearchOutcomes, answer \in SearchAnswers :
       RagSearch(outcome, answer)
  \/ \E outcome \in GeminiOutcomes : RagGenerate(outcome)

SpecRAG == InitRAG /\ [][NextRAG]_vars

InitFallback ==
  /\ store = EmptyStore
  /\ now = 0
  /\ turns = [t \in TurnIds |-> IdleTurn]
  /\ viewer = IdleViewer
  /\ nextId = 1
  /\ faults = 0
  /\ hist = NoHist
  /\ \E query \in FallbackQueries, documents \in FallbackDocLists :
       rag = [pc |-> "fallback", query |-> query, documents |-> documents,
              text |-> <<>>]

NextFallback == FallbackCall

InitEmbed ==
  /\ store = EmptyStore
  /\ now = 0
  /\ turns = [t \in TurnIds |-> IdleTurn]
  /\ viewer = IdleViewer
  /\ nextId = 1
  /\ faults = 0
  /\ hist = NoHist
  /\ \E apiKey \in BOOLEAN :
       \/ \E text \in EmbedTexts :
            rag = StartEmbed("single", apiKey, text,
                             [isArray |-> FALSE, texts |-> <<>>], 1)
       \/ \E input \in BatchInputs, batchSize \in BatchSizes :
            rag = StartEmbed("batch", apiKey, <<>>, input, batchSize)

NextEmbed ==
  \/ EmbedEnter
  \/ \E outcome \in PostOutcomes : EmbedPost(outcome)
  \/ BatchEnter
  \/ \E outcome \in BatchPostOutcomes : BatchPost(outcome)
  \/ BatchFinish

SpecEmbed == InitEmbed /\ [][NextEmbed]_vars

SpecFallback == InitFallback /\ [][NextFallback]_vars

----------------------------------------------------------------------------
(* Properties of the turn handlers (specification Spec) *)

Ids(messages) == {messages[i].id : i \in DOMAIN messages}

Ordered(messages) ==
  \A i, j \in DOMAIN messages : i < j => messages[i].id < messages[j].id

(* C1: two turns on the same session that ran concurrently and both        *)
(* completed leave the user message and the bot message of both turns in   *)
(* the stored history.  Stated for runs without any cache failure, delete  *)
(* or join, where nothing but the turns touches the session.               *)
C1_NoLostUpdate ==
  \A t1, t2 \in TurnIds :
    (/\ t1 # t2
     /\ turns[t1].pc = "done" /\ turns[t2].pc = "done"
     /\ turns[t1].sid = turns[t2].sid
     /\ faults = 0 /\ viewer.count = 0)
    => {turns[t1].userId, turns[t1].botId,
        turns[t2].userId, turns[t2].botId}
         \subseteq Ids(StoredMessages(store, turns[t1].sid))

(* C2: every step that leaves a record for a session leaves one whose      *)
(* message list has the list stored just before as a prefix (the empty     *)
(* list when there was no record, as after a delete).  Stated for runs     *)
(* without cache failures.                                                 *)
C2_AppendOnly ==
  [][faults' = 0 =>
       \A s \in SessionIds :
         Key(s) \in DOMAIN store' =>
           IsPrefix(StoredMessages(store, s), StoredMessages(store', s))]_vars

(* C3: in every list a getSession returns, and in every list a handler     *)
(* has pushed on, a message pushed earlier stands before a message pushed  *)
(* later (ids are handed out in push order).                               *)
C3_AppendOrder ==
  /\ \A s \in SessionIds : Ordered(StoredMessages(store, s))
  /\ \A t \in TurnIds : Ordered(turns[t].messages)

(* the history of one session holds the messages of two turns that         *)
(* overlapped: the second loaded before the first had saved its reply      *)
C3_Witness ==
  \E s \in SessionIds, t1, t2 \in TurnIds :
    /\ t1 # t2
    /\ turns[t1].sid = s /\ turns[t2].sid = s
    /\ turns[t1].pc = "done" /\ turns[t2].pc = "done"
    /\ turns[t1].userId < turns[t2].userId
    /\ turns[t2].userId < turns[t1].botId
    /\ Len(StoredMessages(store, s)) >= 3

(* what the caller of a turn has been told, as an error *)
ErrorOutcome(turn) ==
  /\ turn.pc = "failed"
  /\ "res:200" \notin Range(turn.events)
  /\ "new_message:bot" \notin Range(turn.events)
  /\ IF turn.channel = "rest"
     THEN turn.events = <<"res:500">>
     ELSE /\ Len(turn.events) >= 2
          /\ turn.events[Len(turn.events)] = "new_message:error"

(* a saveSession awaited by the turn was rejected in this step *)
SaveFailed(t) ==
  /\ turns[t].pc \in {"saveUser", "saveBot"}
  /\ turns'[t] # turns[t]
  /\ faults' = faults + 1

(* C13: when a saveSession issued by a turn fails, the turn's caller gets   *)
(* an error outcome (REST: the 500 response, socket: the error message)    *)
(* and never the success response or a new_message with the answer.        *)
C13_WriteFailureSurfaced ==
  /\ [][\A t \in TurnIds : SaveFailed(t) => ErrorOutcome(turns'[t])]_vars
  /\ [](\A t \in TurnIds : turns[t].pc = "failed" => ErrorOutcome(turns[t]))

(* a socket turn whose second save, the one with the answer, failed *)
C13_Witness ==
  \E t \in TurnIds :
    /\ turns[t].pc = "failed" /\ turns[t].channel = "socket"
    /\ turns[t].botId # 0
    /\ "new_message:user" \in Range(turns[t].events)
    /\ ErrorOutcome(turns[t])

(* C14: every turn that completed did exactly one saveSession, whose list  *)
(* held both the turn's user message and its bot message; no list with     *)
(* the user message and without the bot message was ever saved.            *)
C14_SingleSave ==
  \A t \in TurnIds :
    /\ turns[t].pc = "done" =>
         /\ Len(turns[t].saves) = 1
         /\ turns[t].saves[1].user /\ turns[t].saves[1].bot
    /\ \A i \in DOMAIN turns[t].saves :
         turns[t].saves[i].user => turns[t].saves[i].bot

(* the store operations a turn has had answered, in order *)
StoreOps(turn) ==
  (IF turn.pc \in {"idle", "rejected", "get"} THEN <<>> ELSE <<"get">>)
    \o [i \in DOMAIN turn.saves |-> "save"]

(* the fields of a stored message and of its metadata *)
Shape(message) ==
  [fields |-> DOMAIN message,
   metadata |-> IF "metadata" \in DOMAIN message
                THEN DOMAIN message.metadata ELSE {}]

(* a REST turn and a socket turn, on two sessions that were both empty,    *)
(* for the same message and with the same orchestrator result, and         *)
(* nothing else going on                                                   *)
SameTurnOnBothChannels(t1, t2) ==
  /\ turns[t1].pc = "done" /\ turns[t2].pc = "done"
  /\ turns[t1].channel = "rest" /\ turns[t2].channel = "socket"
  /\ turns[t1].sid # turns[t2].sid
  /\ turns[t1].query = turns[t2].query
  /\ Len(turns[t1].messages) = 2 /\ Len(turns[t2].messages) = 2
  /\ turns[t1].messages[2].content = turns[t2].messages[2].content
  /\ turns[t1].messages[2].sources = turns[t2].messages[2].sources
  /\ faults = 0 /\ viewer.count = 0

(* C15: from the same stored history, for the same message and the same    *)
(* orchestrator result, the REST turn and the socket turn issue the same   *)
(* sequence of store operations and leave histories of the same length     *)
(* whose messages have the same fields and the same metadata keys.         *)
C15_ChannelEquivalence ==
  \A t1, t2 \in TurnIds :
    SameTurnOnBothChannels(t1, t2) =>
      LET h1 == StoredMessages(store, turns[t1].sid)
          h2 == StoredMessages(store, turns[t2].sid)
      IN /\ StoreOps(turns[t1]) = StoreOps(turns[t2])
         /\ Len(h1) = Len(h2)
         /\ \A i \in DOMAIN h1 : Shape(h1[i]) = Shape(h2[i])

(* C16: every message a turn appends is appended to a list that came back  *)
(* from getSession with no await (save or orchestrator call) resolved      *)
(* since; in particular the bot message is not appended to a list loaded   *)
(* before generation started.                                              *)
C16_RefetchBeforeAppend ==
  \A t \in TurnIds :
    \A i \in DOMAIN turns[t].pushes : turns[t].pushes[i] = 0

----------------------------------------------------------------------------
(* Properties of the store's functions (specification SpecStore) *)

IsUndefinedAt(obj, k) == k \in NullableKeys /\ obj[k] = Undefined

(* two objects are the same to a reader: every property read gives the     *)
(* same value, a missing key reading as undefined                          *)
SameObject(a, b) ==
  \A k \in DOMAIN a \cup DOMAIN b :
    \/ k \in DOMAIN a /\ k \in DOMAIN b /\ a[k] = b[k]
    \/ k \notin DOMAIN a /\ IsUndefinedAt(b, k)
    \/ k \notin DOMAIN b /\ IsUndefinedAt(a, k)

SameMessage(a, b) ==
  /\ DOMAIN a = DOMAIN b
  /\ \A k \in DOMAIN a :
       IF k = "metadata" THEN SameObject(a[k], b[k]) ELSE a[k] = b[k]

SameContent(m1, m2) ==
  /\ Len(m1) = Len(m2)
  /\ \A i \in DOMAIN m1 : SameMessage(m1[i], m2[i])

RoundTripCase ==
  /\ hist.read # <<>>
  /\ hist.saved # <<>>
  /\ ~hist.savedSince

(* C9 as stated: after saveSession(id, M), with no save, delete or expiry  *)
(* in between, getSession(id) returns a list equal to M in content and     *)
(* order.                                                                  *)
C9_RoundTripAsStated ==
  RoundTripCase => SameContent(hist.read[1].got, hist.saved[1])

(* C9, amended: after saveSession(id, M), with no save, delete or expiry   *)
(* in between, a getSession(id) whose cache read succeeds returns a list   *)
(* equal to M in content and order.                                        *)
C9_RoundTrip ==
  (RoundTripCase /\ hist.read[1].ok)
    => SameContent(hist.read[1].got, hist.saved[1])

(* a list with a REST user message, whose undefined userAgent the stored   *)
(* JSON does not carry, was saved and then read back                       *)
C9_Witness ==
  /\ RoundTripCase
  /\ hist.read[1].ok
  /\ Len(hist.saved[1]) >= 2
  /\ hist.read[1].got # hist.saved[1]

GetLeavesStore ==
  [][\A s \in SessionIds, readOk \in BOOLEAN :
       StoreGet(s, readOk) => store' = store]_vars

(* C10 as stated: two getSession calls with no saveSession between them    *)
(* return identical lists, and getSession never changes the stored record  *)
(* or its expiry.                                                          *)
C10_LoadIdempotentAsStated ==
  /\ []((hist.prev # <<>> /\ ~hist.savedBetween)
          => hist.read[1].got = hist.prev[1].got)
  /\ GetLeavesStore

(* C10, amended: two getSession calls whose cache reads succeed, with no   *)
(* saveSession, deleteSession or expiry between them, return identical     *)
(* lists, and getSession never changes the stored record or its expiry.    *)
C10_LoadIdempotent ==
  /\ []((/\ hist.prev # <<>>
         /\ ~hist.savedBetween /\ ~hist.removedBetween
         /\ hist.prev[1].ok /\ hist.read[1].ok)
          => hist.read[1].got = hist.prev[1].got)
  /\ GetLeavesStore

(* a non-empty history was read twice in a row, half a time to live        *)
(* having passed since it was saved                                        *)
C10_Witness ==
  /\ hist.prev # <<>> /\ hist.read # <<>>
  /\ ~hist.savedBetween /\ ~hist.removedBetween
  /\ hist.prev[1].ok /\ hist.read[1].ok
  /\ Len(hist.read[1].got) > 0
  /\ Key(Watched) \in DOMAIN store
  /\ store[Key(Watched)].ttl < DefaultTTL

(* C11 as stated: a getSession issued when the time to live has run out    *)
(* since the last saveSession or extendSessionTTL returns the empty list,  *)
(* and one issued before that returns the saved messages.                  *)
C11_TTLExpiryAsStated ==
  [][\A readOk \in BOOLEAN :
       (StoreGet(Watched, readOk) /\ hist.last # <<>>) =>
         IF WithinTTL(hist)
         THEN SameContent(hist'.read[1].got, hist.last[1])
         ELSE hist'.read[1].got = <<>>]_vars

(* C11, amended: a getSession issued when the time to live has run out     *)
(* since the last saveSession or extendSessionTTL returns the empty list;  *)
(* one issued before that, whose cache read succeeds and with no           *)
(* deleteSession since the save, returns the saved messages.               *)
C11_TTLExpiry ==
  [][\A readOk \in BOOLEAN :
       (StoreGet(Watched, readOk) /\ hist.last # <<>>) =>
         IF WithinTTL(hist)
         THEN (readOk /\ ~hist.gone) =>
                SameContent(hist'.read[1].got, hist.last[1])
         ELSE hist'.read[1].got = <<>>]_vars

(* a saved, never deleted, non-empty history was read with success after   *)
(* its time to live had run out, and came back empty                       *)
C11_Witness ==
  /\ hist.last # <<>> /\ Len(hist.last[1]) > 0
  /\ ~hist.gone /\ ~WithinTTL(hist)
  /\ hist.read # <<>> /\ hist.read[1].ok /\ hist.read[1].got = <<>>
  /\ hist.removedBetween /\ ~hist.savedSince /\ ~hist.removedSince

(* C12: getSession never raises; it returns the empty list when the key    *)
(* is absent, when it has expired, when the cache read fails and when the  *)
(* stored value cannot be parsed, and otherwise the stored messages.       *)
C12_GetNeverRaises ==
  [][\A s \in SessionIds, readOk \in BOOLEAN :
       StoreGet(s, readOk) =>
         LET outcome == getSessionResult(store, s, readOk)
             key == Key(s)
         IN /\ ~outcome.threw
            /\ (s = Watched /\ hist.last # <<>> /\ ~hist.gone
                   /\ ~WithinTTL(hist)) => outcome.messages = <<>>
            /\ IF ~readOk \/ key \notin DOMAIN store
               THEN outcome.messages = <<>>
               ELSE IF ~Parses(store[key].val)
               THEN outcome.messages = <<>>
               ELSE IF "messages" \in DOMAIN JSONparse(store[key].val)
               THEN outcome.messages = JSONparse(store[key].val).messages
               ELSE outcome.messages = <<>>]_vars

(* the key held text that is not JSON and a getSession whose read          *)
(* succeeded came back with the empty list                                 *)
C12_Witness ==
  /\ Key(Watched) \in DOMAIN store
  /\ ~Parses(store[Key(Watched)].val)
  /\ hist.read # <<>> /\ hist.read[1].ok /\ hist.read[1].got = <<>>
  /\ ~hist.savedSince /\ ~hist.removedSince

----------------------------------------------------------------------------
(* Properties of generateRAGResponse, under SpecRAG *)

Returned == rag.pc = "done"
Result == rag.result[1]
ValidQuery == validateQuery(rag.query).valid

PostFailures == {"network", "http4xx", "http5xx", "malformed"}

(* generateEmbedding's outer catch was entered: the provider was asked and *)
(* the last request failed                                                 *)
EmbeddingFailed ==
  /\ rag.pc # "validate"
  /\ Len(rag.embLog) > 0
  /\ rag.embLog[Len(rag.embLog)] \in PostFailures
  /\ rag.pc # "embed"

SearchInvoked == rag.pc # "validate" /\ Len(rag.searchLog) > 0

(* the request to the configured vector store failed *)
SearchFailed == SearchInvoked /\ rag.searchLog[1] = "fail"

(* C4: for every valid query and every combination of embedding,          *)
(* retrieval and generation outcomes, the result returned by               *)
(* generateRAGResponse has a non-empty answer, and metadata carrying       *)
(* processingTime and a modelUsed that is the model's name,                *)
(* "fallback-template" or "error-fallback".                                *)
C4_AlwaysAnswers ==
  (Returned /\ ValidQuery) =>
    /\ Len(Result.answer) > 0
    /\ StrLen(Result.answer) > 0
    /\ "processingTime" \in DOMAIN Result.metadata
    /\ Result.metadata.modelUsed
         \in {GeminiModel, "fallback-template", "error-fallback"}

(* a valid query answered after the embedding provider, the vector store   *)
(* and the model all failed                                                *)
C4_Witness ==
  /\ Returned /\ ValidQuery
  /\ EmbeddingFailed /\ SearchFailed /\ rag.genThrew
  /\ Result.metadata.modelUsed = "fallback-template"

(* C5: when generateWithGemini throws after its last attempt, the result   *)
(* is returned with modelUsed "fallback-template", its answer is the       *)
(* fallback generator's text for the documents that passed the relevance   *)
(* filter, and if there is such a document the answer holds a source       *)
(* entry and sources is not empty.                                         *)
C5_FallbackAfterRetries ==
  (Returned /\ rag.genThrew) =>
    LET candidates == relevantFilter(rag.searchResults) IN
    /\ Result.metadata.modelUsed = "fallback-template"
    /\ Result.answer = generateFallbackResponse(rag.clean, candidates)
    /\ Len(candidates) > 0 =>
         /\ "entry" \in Range(Result.answer)
         /\ Len(Result.sources) > 0

(* three 503 answers in a row with documents above the threshold *)
C5_Witness ==
  /\ Returned /\ rag.genThrew
  /\ Len(rag.genLog) = GeminiMaxRetries
  /\ \A i \in DOMAIN rag.genLog :
       rag.genLog[i].kind = "error" /\ "503" \in Range(rag.genLog[i].text)
  /\ Len(relevantFilter(rag.searchResults)) > 0
  /\ "entry" \in Range(Result.answer)

(* the text between the first and the last character that is not white    *)
(* space                                                                   *)
Trimmed(text) ==
  LET solid == {i \in DOMAIN text : text[i] \notin {" ", "\t", "\n"}} IN
  IF solid = {} THEN <<>>
  ELSE SubSeq(text, CHOOSE i \in solid : \A j \in solid : i <= j,
                    CHOOSE i \in solid : \A j \in solid : i >= j)

Acceptable(value) ==
  /\ IsString(value)
  /\ StrLen(Trimmed(value)) >= MinQueryLength
  /\ StrLen(Trimmed(value)) <= MaxQueryLength

(* C17: validateQuery accepts exactly the strings whose trimmed length is  *)
(* between 3 and 1000 inclusive, returning the trimmed text as the query;  *)
(* every other input is rejected with valid = FALSE.  Stated of the query  *)
(* given to generateRAGResponse, and of what its validation step did.      *)
C17_ValidateQuery ==
  LET validation == validateQuery(rag.query) IN
  /\ validation.valid <=> Acceptable(rag.query)
  /\ validation.valid => validation.query = Trimmed(rag.query)
  /\ (rag.pc \notin {"validate", "threw"} /\ Acceptable(rag.query))
       => rag.clean = Trimmed(rag.query)
  /\ (rag.pc \notin {"validate", "threw", "done"}) => Acceptable(rag.query)

(* a padded query of exactly three characters once trimmed went through    *)
(* validation and on to the embedding                                      *)
C17_Witness ==
  /\ rag.pc \in {"embed", "search"}
  /\ rag.query # rag.clean
  /\ StrLen(rag.clean) = MinQueryLength
  /\ validateQuery(QueryMax).valid /\ ~validateQuery(QueryLong).valid
  /\ ~validateQuery(QueryTabs).valid /\ ~validateQuery(JSNumber).valid

InvalidQuery == ~validateQuery(rag.query).valid

NoClientInvoked ==
  rag.embLog = <<>> /\ rag.searchLog = <<>> /\ rag.genLog = <<>>

(* C18: for every invalid query, values that are not strings included,     *)
(* generateRAGResponse does not throw: its first step returns the error    *)
(* result (modelUsed "error-fallback", no sources) and no embedding,       *)
(* search or generation request is made.                                   *)
C18_InvalidQueryResult ==
  (InvalidQuery /\ rag.pc # "validate") =>
    /\ Returned
    /\ Result.metadata.modelUsed = "error-fallback"
    /\ Result.sources = <<>>
    /\ NoClientInvoked

(* the search has answered and the documents have been filtered *)
Filtered == rag.pc \in {"generate", "done"} /\ Len(rag.searchLog) > 0

(* C19: the relevance filter drops exactly the candidates whose score is   *)
(* strictly below the threshold: a candidate returned by the search is     *)
(* among the relevant documents (and so in the context and the sources)    *)
(* if and only if its score is at least the threshold.                     *)
C19_ThresholdKeepsEqual ==
  Filtered =>
    \A i \in DOMAIN rag.searchResults :
      (rag.searchResults[i].score >= RelevanceThreshold)
        <=> (\E j \in DOMAIN rag.relevantDocs :
               rag.relevantDocs[j] = rag.searchResults[i])

(* the positions, in what the search returned, of the candidates above     *)
(* the threshold                                                           *)
Passing == {i \in DOMAIN rag.searchResults :
              rag.searchResults[i].score > RelevanceThreshold}

(* the candidate at the n-th of those positions *)
PassingDoc(n) ==
  rag.searchResults[CHOOSE i \in Passing :
                      Cardinality({j \in Passing : j <= i}) = n]

(* C20: the number of context blocks, the length of sources,               *)
(* metadata.documentsFound and metadata.sourcesUsed all equal the number   *)
(* of candidates that pass the relevance threshold, and sources[i] and     *)
(* context block i describe the same candidate.                            *)
C20_CountsAgree ==
  /\ Filtered => Len(rag.context) = Cardinality(Passing)
  /\ (Filtered /\ Returned) =>
       /\ Len(Result.sources) = Cardinality(Passing)
       /\ Result.metadata.documentsFound = Cardinality(Passing)
       /\ Result.metadata.sourcesUsed = Cardinality(Passing)
       /\ \A n \in DOMAIN Result.sources :
            /\ Result.sources[n] = MakeSource(PassingDoc(n))
            /\ rag.context[n].index = n
            /\ rag.context[n].title = Result.sources[n].title
            /\ Result.sources[n].relevanceScore = PassingDoc(n).score

(* two candidates scoring 0.85 and 0.6 were retrieved and exactly one was  *)
(* used                                                                    *)
C20_Witness ==
  /\ Filtered /\ Returned
  /\ rag.searchResults = <<DocHigh, DocLow>>
  /\ Len(Result.sources) = 1 /\ Len(rag.context) = 1
  /\ Result.metadata.documentsFound = 1

(* C21: the context blocks and the sources are in descending score order, *)
(* whatever the order in which the search returned the candidates (the     *)
(* blocks follow the relevant documents, one block per document).          *)
C21_DescendingScore ==
  /\ Filtered =>
       \A i, j \in DOMAIN rag.relevantDocs :
         i < j => rag.relevantDocs[i].score >= rag.relevantDocs[j].score
  /\ (Filtered /\ Returned) =>
       \A i, j \in DOMAIN Result.sources :
         i < j => Result.sources[i].relevanceScore
                    >= Result.sources[j].relevanceScore

(* the n-th call of the model failed with an error that is not retryable *)
FatalAt(n) ==
  /\ rag.genLog[n].kind = "error"
  /\ ~IsRetryable(rag.genLog[n].text)

(* the n-th call of the model failed with a retryable error *)
RetryableAt(n) ==
  /\ rag.genLog[n].kind = "error"
  /\ IsRetryable(rag.genLog[n].text)

(* the n-th call of the model returned a text that is not accepted *)
RejectedTextAt(n) ==
  /\ rag.genLog[n].kind = "text"
  /\ StrLen(rag.genLog[n].text) <= MinResponseLength

GenerationStarted == rag.pc \in {"generate", "done"} /\ rag.genAttempt > 0

(* generateWithGemini returned a text *)
GenerationReturned ==
  Returned /\ Len(rag.genLog) > 0 /\ ~rag.genThrew

(* C22: an error that is not retryable, on any attempt, makes              *)
(* generateWithGemini throw at once: the failed call is the last call of   *)
(* the model.                                                              *)
C22_FatalRaisesAtOnce ==
  GenerationStarted =>
    \A n \in DOMAIN rag.genLog :
      FatalAt(n) => (n = Len(rag.genLog) /\ Returned /\ rag.genThrew)

(* C23: generateWithGemini calls the model at most maxRetries (3) times;   *)
(* after a retryable failure on attempt n it waits retryDelay * n before   *)
(* the next attempt; it ends by returning a text longer than the minimum   *)
(* length or by throwing after the last attempt, never without a value.    *)
C23_BoundedRetries ==
  GenerationStarted =>
    /\ Len(rag.genLog) <= GeminiMaxRetries
    /\ rag.pc = "generate" =>
         /\ rag.genAttempt = Len(rag.genLog) + 1
         /\ rag.genAttempt <= GeminiMaxRetries
    /\ \A n \in DOMAIN rag.genWaits :
         RetryableAt(n) => rag.genWaits[n] = GeminiRetryDelay * n
    /\ \A n \in DOMAIN rag.genLog :
         (RetryableAt(n) /\ n < GeminiMaxRetries) => n \in DOMAIN rag.genWaits
    /\ (Returned /\ Len(rag.genLog) > 0) =>
         LET last == rag.genLog[Len(rag.genLog)] IN
         IF rag.genThrew
         THEN Len(rag.genLog) = GeminiMaxRetries
         ELSE /\ last.kind = "text"
              /\ StrLen(last.text) > MinResponseLength
              /\ Result.answer = last.text

(* two retryable failures, waited for 2000 and 4000, then a text *)
C23_Witness ==
  /\ GenerationReturned
  /\ Len(rag.genLog) = GeminiMaxRetries
  /\ RetryableAt(1) /\ RetryableAt(2)
  /\ rag.genWaits = <<GeminiRetryDelay, 2 * GeminiRetryDelay>>

RecordExists == hist.last # <<>> /\ ~hist.gone /\ WithinTTL(hist)

(* the key of the watched session holds a value saveSession did not write *)
ForeignHeld ==
  /\ Key(Watched) \in DOMAIN store
  /\ store[Key(Watched)].val \in ForeignValues

(* C28: deleteSession returns true exactly when a record existed when it   *)
(* was called and false otherwise; after it has returned, getSession       *)
(* yields the empty sequence and a deleteSession repeated at once returns  *)
(* false.                                                                  *)
C28_DeleteResult ==
  [][StoreDelete(Watched, TRUE) =>
       /\ ~ForeignHeld => (wasDeleted(store, Watched) <=> RecordExists)
       /\ wasDeleted(store, Watched) <=> Key(Watched) \in DOMAIN store
       /\ getSession(store', Watched, TRUE) = <<>>
       /\ ~wasDeleted(store', Watched)]_vars

(* a saved session was deleted while its record was there *)
C28_Witness ==
  /\ hist.last # <<>> /\ hist.gone /\ WithinTTL(hist)
  /\ faults = 0
  /\ Key(Watched) \notin DOMAIN store

(* C29: extendSessionTTL changes the expiry and nothing else: the stored   *)
(* messages, messageCount and lastUpdated stay as they are; for a session  *)
(* that is absent or has expired it creates no record and returns false;   *)
(* it never raises.                                                        *)
C29_ExtendOnlyExpiry ==
  [][\A sessionId \in SessionIds, expireOk \in BOOLEAN :
       StoreExtend(sessionId, expireOk) =>
         LET answer == extendSessionTTLResult(store, sessionId, expireOk)
         IN /\ DOMAIN store' = DOMAIN store
            /\ \A k \in DOMAIN store :
                 /\ store'[k].val = store[k].val
                 /\ k # Key(sessionId) => store'[k] = store[k]
            /\ ~answer.threw
            /\ Key(sessionId) \notin DOMAIN store => ~answer.value
            /\ (sessionId = Watched /\ ~RecordExists /\ ~ForeignHeld)
                 => (~answer.value /\ Key(sessionId) \notin DOMAIN store')
            /\ hist'.last = hist.last]_vars

(* a record saved earlier has its full time to live again, with the        *)
(* lastUpdated of its save                                                 *)
C29_Witness ==
  /\ Key(Watched) \in DOMAIN store
  /\ store[Key(Watched)].val \notin ForeignValues
  /\ store[Key(Watched)].ttl = DefaultTTL
  /\ JSONparse(store[Key(Watched)].val).lastUpdated < now
  /\ hist.age = 0

(* C26: the embedding client makes at most 3 requests per embed call,      *)
(* retries after every kind of failure (network error, any non-2xx status, *)
(* malformed response), and after the third failure raises an error        *)
(* instead of returning a vector.                                          *)
C26_EmbedRetryPolicy ==
  /\ Len(rag.embLog) <= MAX_RETRIES
  /\ EmbeddingFailed =>
       /\ Len(rag.embLog) = MAX_RETRIES
       /\ rag.embedding = "none"

(* C27: the batch embedding operation never throws, for any list of texts  *)
(* and any pattern of provider failures; every text of a failed group is   *)
(* embedded on its own and gets the 768-dimension zero vector if that      *)
(* fails too.                                                              *)
C27_BatchTotal ==
  rag.mode = "batch" =>
    /\ rag.pc # "threw"
    /\ rag.pc = "returned" => Len(rag.allEmbeddings) = Len(rag.texts)

(* the keywords of a bucket that occur in the query, letter case aside *)
Mentions(query, keywords) ==
  {toLowerCase(query)[i] : i \in DOMAIN query} \cap keywords # {}

(* C25: the fallback template is a function of the query alone: a query    *)
(* with a recency keyword gets the recency template whatever else it       *)
(* matches, technology comes before business, and a query matching no      *)
(* keyword gets the generic template.                                      *)
C25_TemplateSelection ==
  rag.pc = "fallback returned" =>
    LET bucket ==
          CHOOSE b \in {"recency", "technology", "business", "generic"} :
            rag.text[1] = "head:" \o b
        q == rag.query
    IN /\ \E b \in {"recency", "technology", "business", "generic"} :
            rag.text[1] = "head:" \o b
       /\ Mentions(q, RecencyKeywords) => bucket = "recency"
       /\ (~Mentions(q, RecencyKeywords) /\ Mentions(q, TechKeywords))
            => bucket = "technology"
       /\ (~Mentions(q, RecencyKeywords) /\ ~Mentions(q, TechKeywords)
             /\ Mentions(q, BusinessKeywords)) => bucket = "business"
       /\ (~Mentions(q, RecencyKeywords) /\ ~Mentions(q, TechKeywords)
             /\ ~Mentions(q, BusinessKeywords)) => bucket = "generic"
       /\ q = QueryLatestAI => bucket = "recency"
       /\ q = QueryTechMarket => bucket = "technology"

(* "latest AI news" with two documents got the recency template *)
C25_Witness ==
  /\ rag.pc = "fallback returned"
  /\ rag.query = QueryLatestAI
  /\ Len(rag.documents) = 2
  /\ rag.text[1] = "head:recency"

(* the input fails messageSchema or validateQuery *)
Invalid(sessionId, message) ==
  \/ sessionId = "not-a-uuid"
  \/ ~IsString(message)
  \/ StrLen(message) < 1 \/ StrLen(message) > 1000
  \/ StrLen(Trimmed(message)) < 3 \/ StrLen(Trimmed(message)) > 1000

(* C31: a turn rejected at validation (sessionId not a UUID, message       *)
(* failing the schema, query failing validateQuery), on either channel,    *)
(* leaves the session store as it is, expiry included, never reaches       *)
(* getSession, saveSession or the orchestrator, and tells the caller of    *)
(* the error (REST 400, socket error event).                               *)
C31_RejectedTurnNoEffect ==
  [][\A t \in TurnIds :
       /\ \A channel \in Channels, sessionId \in InputSessionIds,
             message \in InputMessages, userAgent \in UserAgents :
            (Receive(t, channel, sessionId, message, userAgent)
               /\ Invalid(sessionId, message)) =>
              /\ store' = store
              /\ turns'[t].pc = "rejected"
              /\ turns'[t].events =
                   IF channel = "rest" THEN <<"res:400">> ELSE <<"error">>
       /\ turns[t].pc = "rejected" => turns'[t] = turns[t]
       /\ turns'[t].pc = "rejected" =>
            /\ turns'[t].saves = <<>>
            /\ turns'[t].userId = 0 /\ turns'[t].botId = 0]_vars

(* a turn was rejected while the record of a completed turn was stored *)
C31_Witness ==
  /\ turns[1].pc = "done"
  /\ turns[2].pc = "rejected" /\ turns[2].sid = turns[1].sid
  /\ Key(turns[1].sid) \in DOMAIN store

(* C32: in every state of the store a turn's user message is in the        *)
(* stored history only if the bot message of that turn is there too.       *)
C32_TurnAtomicity ==
  \A t \in TurnIds :
    (turns[t].userId # 0 /\ turns[t].userId \in StoredIds(turns[t].sid))
      => (turns[t].botId # 0 /\ turns[t].botId \in StoredIds(turns[t].sid))

(* C33: after deleteSession has completed for a session, no turn that had  *)
(* loaded the history before writes the deleted messages back: none of     *)
(* the messages that were stored when the record was deleted is stored     *)
(* again.                                                                  *)
C33_DeletionNotUndone ==
  viewer.wiped # {} => StoredIds(viewer.sid) \cap viewer.wiped = {}

(* C34: when a turn's getSession gave the empty list because the read      *)
(* failed, and the record of the session is there, no saveSession of that  *)
(* turn replaces the record by a list without the messages stored before.  *)
C34_ReadFailureKeepsHistory ==
  [][\A t \in TurnIds :
       (turns[t].readFailed /\ turns'[t].saves # turns[t].saves) =>
         StoredIds(turns[t].sid) \subseteq StoredIds(turns[t].sid)']_vars

(* the turn's bot_typing(true) has gone out and no bot_typing(false) *)
TypingOn(t) ==
  /\ \E i \in DOMAIN turns[t].events : turns[t].events[i] = "bot_typing:true"
  /\ \A i \in DOMAIN turns[t].events :
       turns[t].events[i] # "bot_typing:false"

(* C35: on the socket channel every bot_typing(true) sent to a session is  *)
(* followed, in the end, by a bot_typing(false) to the same session,       *)
(* whether the turn succeeds, the orchestrator falls back or the last      *)
(* save fails.                                                             *)
C35_TypingTurnedOff == \A t \in TurnIds : TypingOn(t) ~> ~TypingOn(t)

(* a turn whose last save failed after bot_typing(true) has sent            *)
(* bot_typing(false)                                                       *)
C35_Witness ==
  \E t \in TurnIds :
    /\ turns[t].pc = "failed"
    /\ \E i, j \in DOMAIN turns[t].events :
         /\ i < j
         /\ turns[t].events[i] = "bot_typing:true"
         /\ turns[t].events[j] = "bot_typing:false"

(* C36: in every history the two turn handlers store, under every         *)
(* interleaving of turns on a session, each bot message comes directly     *)
(* after the user message of the same turn: a bot message is never first   *)
(* and never directly after another bot message.                           *)
C36_BotFollowsItsUser ==
  \A sessionId \in SessionIds :
    LET stored == StoredMessages(store, sessionId) IN
    \A i \in DOMAIN stored :
      stored[i].type = "bot" =>
        /\ i > 1
        /\ stored[i - 1].type = "user"
        /\ \E t \in TurnIds : /\ turns[t].userId = stored[i - 1].id
                              /\ turns[t].botId = stored[i].id

(* two turns on a session are stored, each bot message after its user      *)
(* message                                                                 *)
C36_Witness ==
  \E sessionId \in SessionIds :
    LET stored == StoredMessages(store, sessionId) IN
    /\ Len(stored) = 4
    /\ stored[2].type = "bot" /\ stored[4].type = "bot"

(* the record of a session, messages and expiry, is in the keyspace st as  *)
(* it is in the store                                                      *)
Untouched(st, sessionId) ==
  /\ Key(sessionId) \in DOMAIN st <=> Key(sessionId) \in DOMAIN store
  /\ Key(sessionId) \in DOMAIN store =>
       st[Key(sessionId)] = store[Key(sessionId)]

(* C37: a save, a read, a delete or a renewal of the time to live for one  *)
(* session never changes the stored messages or the expiry of another      *)
(* session, whatever the calls of concurrent turns have made of the store. *)
C37_SessionIsolation ==
  \A a \in SessionIds : \A b \in SessionIds \ {a} :
    /\ \A messages \in SampleLists :
         Untouched(saveSession(store, a, messages, now), b)
    /\ Untouched(getSessionEffect(store, a), b)
    /\ Untouched(deleteSession(store, a), b)
    /\ Untouched(extendSessionTTL(store, a), b)

(* two sessions stored at different times: the later save left the         *)
(* earlier record's remaining time to live as it was                       *)
C37_Witness ==
  /\ Key("s1") \in DOMAIN store /\ Key("s2") \in DOMAIN store
  /\ store[Key("s1")].ttl # store[Key("s2")].ttl
  /\ faults = 0

(* the turn passed validation; the turn has ended *)
Accepted(t) == turns[t].pc \notin {"idle", "rejected"}
Finished(t) == turns[t].pc \in {"done", "failed"}

(* the answers, good or bad, sent to the caller of the turn *)
Responses(t) ==
  Cardinality({i \in DOMAIN turns[t].events :
                 turns[t].events[i] \in {"res:200", "res:500",
                                         "new_message:bot",
                                         "new_message:error"}})

StepsInOrder ==
  rag.pc # "idle" =>
    /\ Len(rag.embLog) <= JinaMaxRetries
    /\ Len(rag.searchLog) <= 1
    /\ Len(rag.genLog) <= GeminiMaxRetries
    /\ rag.pc \in {"validate", "embed", "search"} =>
         (rag.searchLog = <<>> /\ rag.genLog = <<>>)
    /\ Len(rag.genLog) > 0 => Len(rag.searchLog) = 1

C39_OneVectorPerText ==
  (rag.mode = "batch" /\ rag.pc = "returned") =>
    /\ Len(rag.allEmbeddings) = Len(rag.texts)
    /\ \A j \in DOMAIN rag.allEmbeddings :
         /\ rag.allEmbeddings[j].kind \in {"real", "zero"}
         /\ rag.allEmbeddings[j].input = j

(* C40: the text generateFallbackResponse returns shows the query as it    *)
(* was given, a query containing "{sources}" included, and has, where the  *)
(* template's placeholder stood, the numbered list with one entry for each *)
(* candidate in the candidates' order, or the no-sources sentence when     *)
(* there is no candidate; the template's placeholder is never left in it.  *)
C40_PlaceholderReplaced ==
  rag.pc = "fallback returned" =>
    LET q == rag.query
        text == rag.text
    IN /\ SubSeq(text, 3, Len(q) + 2) = q
       /\ SubSeq(text, Len(q) + 4, Len(text) - 1) =
            IF rag.documents = <<>> THEN NoSourcesText
            ELSE FormatSources(rag.documents, 1)
       /\ \A i \in (Len(q) + 3)..Len(text) : text[i] # "{sources}"

(* C6: a failed request to the vector store makes the search return the    *)
(* empty list, so the turn goes on with no candidates and no sources.      *)
C6_FailOpenEmpty ==
  SearchFailed =>
    /\ rag.searchResults = <<>>
    /\ Returned => Result.sources = <<>>

(* C7: when the embedding provider fails for a query, the vector search    *)
(* is not invoked and generation runs with an empty context.               *)
C7_SkipsRetrieval ==
  (rag.pc # "validate" /\ rag.jinaKey /\ EmbeddingFailed) =>
    /\ ~SearchInvoked
    /\ rag.context = <<>>

(* C8: with the embedding provider configured, a placeholder vector is     *)
(* never passed to the vector search.                                      *)
C8_NoPlaceholderSearched ==
  (rag.pc # "validate" /\ rag.jinaKey) => rag.searchVector # "mock"

============================================================================
